---------------------------- MODULE Spec2Model ----------------------------
(***************************************************************************)
(* A model of the dithering engine (namespace Dithering), of the CLI       *)
(* front end that drives it, and of the recursive Bayer-matrix generator.  *)
(*                                                                         *)
(* Colours are triples of bytes <<c0, c1, c2>> (cv::Vec3b).  An image is a *)
(* record [rows, cols, px] with px a function over <<y, x>>.               *)
(*                                                                         *)
(* Floating-point values are modelled in fixed point:                      *)
(*   - the error accumulator (CV_32FC3) and every newPixelF / quantError   *)
(*     in units of 1/FP.  Products with the dyadic kernel weights (/4, /8, *)
(*     /16, /32) are exact on the image sizes explored; the other weights  *)
(*     are truncated towards zero where a float would round;               *)
(*   - thresholds (Bayer entries, pattern entries, noise draws) in units   *)
(*     of 1/TS.  The code's Bayer entries for sizes 2..16 are multiples of *)
(*     1/TS, so they are exact;                                            *)
(*   - strength, contrast and brightness in quarters (value = n / QU).     *)
(***************************************************************************)
EXTENDS Integers, Sequences, FiniteSets, TLC

(***************************************************************************)
(* Bounds of the exploration                                               *)
(***************************************************************************)
MaxRows == 2
MaxCols == 2
\* Frames the call stack holds before a runaway recursion overflows it.
MaxStackDepth == 6
\* Calls made one after the other in a session.
MaxCalls == 3
\* Images of up to this many pixels are enumerated exhaustively; larger
\* ones are drawn from uniform and checkerboard patterns.
MaxFreePixels == 4
\* A video holds at most this many frames, and its container announces at
\* most this many.
MaxFrames == 3

(***************************************************************************)
(* Fixed-point scales                                                      *)
(***************************************************************************)
FP == 4096
TS == 16384
QU == 4

(***************************************************************************)
(* Enumerations (dithering.h)                                              *)
(***************************************************************************)
AlgorithmEnum ==
    << "FLOYD_STEINBERG", "ATKINSON", "JARVIS_JUDICE_NINKE", "STUCKI",
       "BURKES", "SIERRA", "SIERRA_TWO_ROW", "SIERRA_LITE",
       "ORDERED_BAYER_2X2", "ORDERED_BAYER_4X4", "ORDERED_BAYER_8X8",
       "ORDERED_BAYER_16X16", "BLUE_NOISE", "WHITE_NOISE", "RANDOM_DITHER",
       "PATTERN_DITHER", "DOT_DIFFUSION", "RIEMERSMA", "GRADIENT_BASED",
       "VARIABLE_ERROR_DIFFUSION", "OSTROMOUKHOV", "FAN", "SHIAU_FAN",
       "STEVENPIGEON" >>

PaletteModeEnum ==
    << "MONOCHROME", "GRAYSCALE_4", "GRAYSCALE_8", "GRAYSCALE_16", "CGA",
       "EGA", "VGA", "GAMEBOY", "PICO8", "CUSTOM" >>

Range(s) == {s[i] : i \in DOMAIN s}

\* A value outside the enum (a static_cast of an out-of-range integer).
OutOfEnum == "OUT_OF_ENUM"

Algorithms == Range(AlgorithmEnum) \cup {OutOfEnum}
PaletteModes == Range(PaletteModeEnum) \cup {OutOfEnum}

OrderedBayerAlgorithms ==
    {"ORDERED_BAYER_2X2", "ORDERED_BAYER_4X4", "ORDERED_BAYER_8X8",
     "ORDERED_BAYER_16X16"}

\* The algorithms that construct std::mt19937 rng(params.seed).
SeededAlgorithms ==
    {"BLUE_NOISE", "WHITE_NOISE", "RANDOM_DITHER", "VARIABLE_ERROR_DIFFUSION"}

(***************************************************************************)
(* Parameters (dithering.h), with the defaults of the struct               *)
(***************************************************************************)
DefaultParameters ==
    [ algorithm     |-> "FLOYD_STEINBERG",
      paletteMode   |-> "MONOCHROME",
      customPalette |-> << >>,
      strength      |-> QU,        \* 1.0f
      serpentine    |-> QU,        \* 1.0f
      gamma         |-> QU,        \* 1.0f
      contrast      |-> QU,        \* 1.0f
      brightness    |-> 0,         \* 0.0f
      saturation    |-> QU,        \* 1.0f
      bayerSize     |-> 8,
      seed          |-> 42 ]

(***************************************************************************)
(* Small arithmetic helpers                                                *)
(***************************************************************************)
Abs(a) == IF a < 0 THEN -a ELSE a

\* C++ integer division and float-to-integer conversion: towards zero.
TruncDiv(a, b) ==
    IF (a >= 0) = (b > 0) THEN Abs(a) \div Abs(b) ELSE -(Abs(a) \div Abs(b))

\* std::clamp(v, lo, hi)
Clamp(v, lo, hi) == IF v < lo THEN lo ELSE IF v > hi THEN hi ELSE v

RECURSIVE SumSeq(_)
SumSeq(s) == IF s = << >> THEN 0 ELSE s[1] + SumSeq(Tail(s))

Gray(v) == <<v, v, v>>

(***************************************************************************)
(* getPalette (platform.h 1056-1123).  The function takes the mode only:   *)
(* params.customPalette is never passed to it.                             *)
(***************************************************************************)
\* A variant that rounds i * 255 / (n - 1) to the nearest integer.
GrayscalePaletteRounded(n) ==
    [i \in 1..n |-> Gray((2 * (i - 1) * 255 + (n - 1)) \div (2 * (n - 1)))]

GrayscalePalette(n) == [i \in 1..n |-> Gray(((i - 1) * 255) \div (n - 1))]

MonochromePalette == << <<0, 0, 0>>, <<255, 255, 255>> >>

CgaPalette ==
    << <<0, 0, 0>>, <<170, 0, 0>>, <<0, 170, 0>>, <<170, 170, 0>>,
       <<0, 0, 170>>, <<170, 0, 170>>, <<0, 85, 170>>, <<170, 170, 170>>,
       <<85, 85, 85>>, <<255, 85, 85>>, <<85, 255, 85>>, <<255, 255, 85>>,
       <<85, 85, 255>>, <<255, 85, 255>>, <<85, 255, 255>>, <<255, 255, 255>> >>

GameboyPalette ==
    << <<15, 56, 15>>, <<48, 98, 48>>, <<139, 172, 15>>, <<155, 188, 15>> >>

Pico8Palette ==
    << <<0, 0, 0>>, <<95, 87, 79>>, <<255, 0, 77>>, <<171, 82, 54>>,
       <<255, 163, 0>>, <<255, 236, 39>>, <<0, 228, 54>>, <<41, 173, 255>>,
       <<131, 118, 156>>, <<255, 119, 168>>, <<255, 204, 170>>, <<41, 54, 111>>,
       <<0, 87, 132>>, <<194, 195, 199>>, <<255, 241, 232>>, <<242, 233, 222>> >>

\* A variant whose switch has no default branch: the vector stays empty.
getPaletteNoDefault(mode) ==
    CASE mode = "MONOCHROME"   -> MonochromePalette
      [] mode = "GRAYSCALE_4"  -> GrayscalePalette(4)
      [] mode = "GRAYSCALE_8"  -> GrayscalePalette(8)
      [] mode = "GRAYSCALE_16" -> GrayscalePalette(16)
      [] mode = "CGA"          -> CgaPalette
      [] mode = "GAMEBOY"      -> GameboyPalette
      [] mode = "PICO8"        -> Pico8Palette
      [] OTHER                 -> << >>

getPalette(mode) ==
    CASE mode = "MONOCHROME"   -> MonochromePalette
      [] mode = "GRAYSCALE_4"  -> GrayscalePalette(4)
      [] mode = "GRAYSCALE_8"  -> GrayscalePalette(8)
      [] mode = "GRAYSCALE_16" -> GrayscalePalette(16)
      [] mode = "CGA"          -> CgaPalette
      [] mode = "GAMEBOY"      -> GameboyPalette
      [] mode = "PICO8"        -> Pico8Palette
      [] OTHER                 -> MonochromePalette

(***************************************************************************)
(* findClosestColor (platform.h 1126-1142): linear scan, strict <.         *)
(***************************************************************************)
\* std::numeric_limits<float>::max(): larger than any distance 3 * 255^2.
FltMax == 1000000000

\* A variant of the distance: the first channel only.
ColorDistFirstChannel(c, p) == (c[1] - p[1]) * (c[1] - p[1])

ColorDist(c, p) ==
    (c[1] - p[1]) * (c[1] - p[1]) + (c[2] - p[2]) * (c[2] - p[2])
        + (c[3] - p[3]) * (c[3] - p[3])

\* A variant of the scan with `<=`: the last of several equally close
\* entries wins.
RECURSIVE ClosestScanLastWins(_, _, _, _, _)
ClosestScanLastWins(color, palette, i, minDist, closest) ==
    IF i > Len(palette) THEN closest
    ELSE IF ColorDist(color, palette[i]) <= minDist
         THEN ClosestScanLastWins(color, palette, i + 1,
                                  ColorDist(color, palette[i]), palette[i])
         ELSE ClosestScanLastWins(color, palette, i + 1, minDist, closest)

RECURSIVE ClosestScan(_, _, _, _, _)
ClosestScan(color, palette, i, minDist, closest) ==
    IF i > Len(palette) THEN closest
    ELSE IF ColorDist(color, palette[i]) < minDist
         THEN ClosestScan(color, palette, i + 1,
                          ColorDist(color, palette[i]), palette[i])
         ELSE ClosestScan(color, palette, i + 1, minDist, closest)

\* A variant that returns the colour it was given, unquantised.
findClosestColorIdentity(color, palette) == color

findClosestColor(color, palette) ==
    ClosestScan(color, palette, 1, FltMax, palette[1])


(***************************************************************************)
(* Images                                                                  *)
(***************************************************************************)
Coords(rows, cols) == (0..(rows - 1)) \X (0..(cols - 1))

\* The sample values input images are drawn from: mid gray and white.
PixelColors == {Gray(128), Gray(255)}

ImagesOfSize(rows, cols) ==
    {[rows |-> rows, cols |-> cols, px |-> f] :
        f \in [Coords(rows, cols) -> PixelColors]}

PatternImagesOfSize(rows, cols) ==
    {[rows |-> rows, cols |-> cols, px |-> [c \in Coords(rows, cols) |-> v]] :
        v \in PixelColors}
    \cup
    {[rows |-> rows, cols |-> cols,
      px |-> [c \in Coords(rows, cols) |->
                IF (c[1] + c[2]) % 2 = phase THEN Gray(255) ELSE Gray(128)]] :
        phase \in {0, 1}}

Images ==
    UNION {IF r * c <= MaxFreePixels
           THEN ImagesOfSize(r, c) ELSE PatternImagesOfSize(r, c) :
              r \in 1..MaxRows, c \in 1..MaxCols}

\* A variant that takes every cv::Mat to hold pixels.
NeverEmpty(img) == FALSE

\* mat.empty()
Empty(img) == img.rows = 0 \/ img.cols = 0

\* The images without pixels: zero rows, zero columns, or both.
DegenerateImages ==
    {[rows |-> d[1], cols |-> d[2], px |-> << >>] :
        d \in {e \in (0..MaxRows) \X (0..MaxCols) : e[1] * e[2] = 0}}

(***************************************************************************)
(* preprocessImage (platform.h 30-60).  Samples are scaled by 1/255, then  *)
(* value * contrast + brightness, clamped to [0,1], scaled by 255 and      *)
(* rounded (convertTo rounds half to even).  The gamma step is guarded by  *)
(* `!= 1.0f`; of the other gammas the model has 2.0, for which cv::pow      *)
(* multiplies the array by itself.  The saturation step is guarded by      *)
(* `!= 1.0f` and is skipped for the neutral value, the only one the calls   *)
(* of this model pass.  cv::Mat::convertTo releases its destination when   *)
(* the source is empty, so an image without pixels comes out as the 0x0    *)
(* cv::Mat.                                                                *)
(***************************************************************************)
RoundHalfEven(n, d) ==
    LET q == n \div d
        r == n % d
    IN  IF 2 * r < d THEN q
        ELSE IF 2 * r > d THEN q + 1
        ELSE IF q % 2 = 0 THEN q ELSE q + 1

\* A variant that normalises by 1/256 and rescales by 255.
PreprocessSampleBy256(v, p) ==
    RoundHalfEven(Clamp(v * 255 * p.contrast + 255 * 256 * p.brightness,
                        0, 255 * 256 * QU),
                  256 * QU)

\* v / 255 * contrast + brightness, in units of 1 / (255 * QU)
Adjusted(v, p) == v * p.contrast + 255 * p.brightness

PreprocessSample(v, p) ==
    IF p.gamma = 2 * QU
    THEN RoundHalfEven(Clamp(Adjusted(v, p) * Adjusted(v, p),
                             0, 255 * 255 * QU * QU),
                       255 * QU * QU)
    ELSE RoundHalfEven(Clamp(Adjusted(v, p), 0, 255 * QU), QU)

preprocessImage(img, p) ==
    IF Empty(img)
    THEN [rows |-> 0, cols |-> 0, px |-> << >>]
    ELSE [img EXCEPT !.px =
            [c \in Coords(img.rows, img.cols) |->
                << PreprocessSample(img.px[c][1], p),
                   PreprocessSample(img.px[c][2], p),
                   PreprocessSample(img.px[c][3], p) >>]]

(***************************************************************************)
(* Error-diffusion kernels: offsets <<dx, dy>>, weights num / den          *)
(***************************************************************************)
FloydSteinbergOffsets == << <<1, 0>>, <<-1, 1>>, <<0, 1>>, <<1, 1>> >>

TwoRowOffsets ==
    << <<1, 0>>, <<2, 0>>,
       <<-2, 1>>, <<-1, 1>>, <<0, 1>>, <<1, 1>>, <<2, 1>> >>

ThreeRowOffsets ==
    TwoRowOffsets \o << <<-2, 2>>, <<-1, 2>>, <<0, 2>>, <<1, 2>>, <<2, 2>> >>

SierraOffsets == TwoRowOffsets \o << <<-1, 2>>, <<0, 2>>, <<1, 2>> >>

Kernel(alg) ==
    CASE alg = "ATKINSON" ->
            [offsets |-> << <<1, 0>>, <<2, 0>>, <<-1, 1>>, <<0, 1>>, <<1, 1>>,
                            <<0, 2>> >>,
             num |-> <<1, 1, 1, 1, 1, 1>>, den |-> 8]
      [] alg = "JARVIS_JUDICE_NINKE" ->
            [offsets |-> ThreeRowOffsets,
             num |-> <<7, 5, 3, 5, 7, 5, 3, 1, 3, 5, 3, 1>>, den |-> 48]
      [] alg = "STUCKI" ->
            [offsets |-> ThreeRowOffsets,
             num |-> <<8, 4, 2, 4, 8, 4, 2, 1, 2, 4, 2, 1>>, den |-> 42]
      [] alg = "BURKES" ->
            [offsets |-> TwoRowOffsets,
             num |-> <<8, 4, 2, 4, 8, 4, 2>>, den |-> 32]
      [] alg = "SIERRA" ->
            [offsets |-> SierraOffsets,
             num |-> <<5, 3, 2, 4, 5, 4, 2, 2, 3, 2>>, den |-> 32]
      [] alg = "SIERRA_TWO_ROW" ->
            [offsets |-> TwoRowOffsets,
             num |-> <<4, 3, 1, 2, 3, 2, 1>>, den |-> 16]
      [] alg = "SIERRA_LITE" ->
            [offsets |-> << <<1, 0>>, <<-1, 1>>, <<0, 1>> >>,
             num |-> <<2, 1, 1>>, den |-> 4]
      [] alg = "FAN" ->
            [offsets |-> << <<1, 0>>, <<0, 1>>, <<1, 1>>, <<-1, 1>> >>,
             num |-> <<7, 1, 5, 3>>, den |-> 16]
      [] alg = "SHIAU_FAN" ->
            [offsets |-> TwoRowOffsets,
             num |-> <<4, 1, 1, 1, 2, 4, 2>>, den |-> 16]
      [] alg = "STEVENPIGEON" ->
            [offsets |-> SierraOffsets,
             num |-> <<2, 1, 1, 2, 2, 2, 1, 1, 1, 1>>, den |-> 14]
      [] OTHER ->
            \* floydSteinberg, gradientBased, variableErrorDiffusion,
            \* ostromoukhov (before their per-pixel scaling) and the
            \* dispatcher's default
            [offsets |-> FloydSteinbergOffsets,
             num |-> <<7, 3, 5, 1>>, den |-> 16]

(***************************************************************************)
(* std::mt19937 seeded with params.seed, read through                      *)
(* std::uniform_real_distribution<float>(0, 1): the first draws of the     *)
(* generator, float(u32) / 2^32, in units of 1/TS.                         *)
(***************************************************************************)
Seeds == {42, 1}

MtCanonical(seed, n) ==
    LET t == IF seed = 42
             THEN << 6136, 13050, 15576, 3005, 11992, 12774, 9808, 9778,
                     2556, 7304, 2555, 1637, 951, 7524, 14191, 5467 >>
             ELSE << 6832, 16337, 11801, 15279, 1, 2099, 4953, 16368,
                     2404, 3868, 1512, 6497, 3051, 6355, 5661, 10973 >>
    IN  t[(n % 16) + 1]

(***************************************************************************)
(* generateBlueNoiseTexture(256, seed) (platform.h 1035-1053): white noise *)
(* from its own mt19937(seed), 5x5 Gaussian blur (sigma 1, reflected       *)
(* border), min-max normalisation.  The entries of the top-left corner of  *)
(* the texture, in units of 1/TS.                                          *)
(***************************************************************************)
generateBlueNoiseTexture(seed) ==
    IF seed = 42
    THEN << << 6402, 8137, 10100 >>,
            << 7569, 8927, 10813 >>,
            << 11554, 12090, 13232 >> >>
    ELSE << << 6883, 7636, 7846 >>,
            << 5782, 6341, 6636 >>,
            << 4564, 4921, 5608 >> >>

(***************************************************************************)
(* patternDither's 4x4 table (platform.h 630-635), in units of 1/TS        *)
(***************************************************************************)
PatternTable ==
    << << 0, 8192, 2048, 10240 >>,
       << 12288, 4096, 14336, 6144 >>,
       << 3072, 11264, 1024, 9216 >>,
       << 15360, 7168, 13312, 5120 >> >>

(***************************************************************************)
(* dotDiffusion's 8x8 class matrix (platform.h 672-681)                    *)
(***************************************************************************)
ClassMatrix ==
    << << 39, 23, 15, 31, 38, 22, 14, 30 >>,
       << 24, 7, 1, 9, 25, 8, 2, 10 >>,
       << 16, 3, 47, 43, 17, 4, 48, 44 >>,
       << 32, 11, 41, 27, 33, 12, 42, 28 >>,
       << 37, 21, 13, 29, 40, 26, 18, 34 >>,
       << 26, 6, 0, 8, 27, 5, 61, 13 >>,
       << 19, 2, 46, 42, 20, 1, 49, 45 >>,
       << 35, 10, 40, 26, 36, 9, 43, 25 >> >>


(***************************************************************************)
(* generateBayerMatrix (platform.h 493-514).  A matrix is a record         *)
(* [size, m], m a function over <<y, x>> with entries in units of 1/TS.    *)
(* The recursion itself is unfolded by the actions BayerDescend,           *)
(* BayerBaseCase and BayerCombineStep below.                               *)
(***************************************************************************)
NoMatrix == [size |-> 0, m |-> << >>]

\* A variant of the base case without the division by 4.0f.
BayerBaseUnnormalised ==
    [size |-> 2,
     m |-> [c \in Coords(2, 2) |->
              TS * (CASE c = <<0, 0>> -> 0
                      [] c = <<0, 1>> -> 2
                      [] c = <<1, 0>> -> 3
                      [] OTHER        -> 1)]]

\* (cv::Mat_<float>(2, 2) << 0, 2, 3, 1) / 4.0f
BayerBase ==
    [size |-> 2,
     m |-> [c \in Coords(2, 2) |->
              (TS \div 4) * (CASE c = <<0, 0>> -> 0
                               [] c = <<0, 1>> -> 2
                               [] c = <<1, 0>> -> 3
                               [] OTHER        -> 1)]]

\* The body after the recursive call returned `smaller`: the four
\* quadrants are 4 * val + {0, 2, 3, 1}, with val the entry of the matrix
\* the recursive call returned, and the whole is divided by size * size.
\* Cells outside the four quadrants (odd sizes) keep the zero of
\* cv::Mat::zeros.
BayerCombine(smaller, size) ==
    LET h == TruncDiv(size, 2)
    IN  [size |-> size,
         m |-> [c \in Coords(size, size) |->
                  IF c[1] < 2 * h /\ c[2] < 2 * h
                  THEN LET val == smaller.m[<<c[1] % h, c[2] % h>>]
                           off == IF c[1] < h
                                  THEN (IF c[2] < h THEN 0 ELSE 2)
                                  ELSE (IF c[2] < h THEN 3 ELSE 1)
                       IN  (4 * val + off * TS) \div (size * size)
                  ELSE 0]]

(***************************************************************************)
(* gradientBased's edge map (platform.h 763-768): BGR2GRAY, two 3x3 Sobel  *)
(* filters (reflected border), magnitude, min-max normalisation to [0,1].  *)
(* The result is in units of 1/64.                                         *)
(***************************************************************************)
Reflect101(i, n) ==
    IF n = 1 THEN 0
    ELSE IF i < 0 THEN -i
    ELSE IF i >= n THEN 2 * n - 2 - i
    ELSE i

GrayOf(c) == (c[1] * 1868 + c[2] * 9617 + c[3] * 4899 + 8192) \div 16384

GrayAt(img, y, x) ==
    GrayOf(img.px[<<Reflect101(y, img.rows), Reflect101(x, img.cols)>>])

SobelX(img, y, x) ==
    (GrayAt(img, y - 1, x + 1) - GrayAt(img, y - 1, x - 1))
    + 2 * (GrayAt(img, y, x + 1) - GrayAt(img, y, x - 1))
    + (GrayAt(img, y + 1, x + 1) - GrayAt(img, y + 1, x - 1))

SobelY(img, y, x) ==
    (GrayAt(img, y + 1, x - 1) - GrayAt(img, y - 1, x - 1))
    + 2 * (GrayAt(img, y + 1, x) - GrayAt(img, y - 1, x))
    + (GrayAt(img, y + 1, x + 1) - GrayAt(img, y - 1, x + 1))

RECURSIVE IsqrtIn(_, _, _)
IsqrtIn(v, lo, hi) ==
    IF lo >= hi THEN lo
    ELSE LET mid == (lo + hi + 1) \div 2
         IN  IF mid * mid <= v THEN IsqrtIn(v, mid, hi)
             ELSE IsqrtIn(v, lo, mid - 1)

Isqrt(v) == IsqrtIn(v, 0, 46340)

\* cv::magnitude, in sixteenths
Magnitude(img, c) ==
    Isqrt(256 * (SobelX(img, c[1], c[2]) * SobelX(img, c[1], c[2])
                 + SobelY(img, c[1], c[2]) * SobelY(img, c[1], c[2])))

SetMin(S) == CHOOSE a \in S : \A b \in S : a <= b

SetMax(S) == CHOOSE a \in S : \A b \in S : a >= b

GradientMap(img) ==
    LET cs  == Coords(img.rows, img.cols)
        mag == [c \in cs |-> Magnitude(img, c)]
        lo  == SetMin({mag[c] : c \in cs})
        hi  == SetMax({mag[c] : c \in cs})
    IN  [c \in cs |-> IF hi = lo THEN 0
                      ELSE ((mag[c] - lo) * 64) \div (hi - lo)]

(***************************************************************************)
(* ditherImage's switch (platform.h 66-114): the implementation each       *)
(* algorithm value is routed to.  randomDither forwards to                 *)
(* whiteNoiseDither.                                                       *)
(***************************************************************************)
\* The function each case of the switch returns, in the order of the enum.
ImplementationNames ==
    << "floydSteinberg", "atkinson", "jarvisJudiceNinke", "stucki", "burkes",
       "sierra", "sierraTwo", "sierraLite", "orderedDither", "orderedDither",
       "orderedDither", "orderedDither", "blueNoiseDither", "whiteNoiseDither",
       "randomDither", "patternDither", "dotDiffusion", "riemersma",
       "gradientBased", "variableErrorDiffusion", "ostromoukhov", "fan",
       "shiauFan", "stevenPigeon" >>

\* A variant whose switch has no default branch.
RouteNoDefault(alg) ==
    IF \E i \in DOMAIN AlgorithmEnum : AlgorithmEnum[i] = alg
    THEN ImplementationNames[CHOOSE i \in DOMAIN AlgorithmEnum :
                                 AlgorithmEnum[i] = alg]
    ELSE "none"

Route(alg) ==
    CASE alg = "FLOYD_STEINBERG"          -> "floydSteinberg"
      [] alg = "ATKINSON"                 -> "atkinson"
      [] alg = "JARVIS_JUDICE_NINKE"      -> "jarvisJudiceNinke"
      [] alg = "STUCKI"                   -> "stucki"
      [] alg = "BURKES"                   -> "burkes"
      [] alg = "SIERRA"                   -> "sierra"
      [] alg = "SIERRA_TWO_ROW"           -> "sierraTwo"
      [] alg = "SIERRA_LITE"              -> "sierraLite"
      [] alg \in OrderedBayerAlgorithms   -> "orderedDither"
      [] alg = "BLUE_NOISE"               -> "blueNoiseDither"
      [] alg = "WHITE_NOISE"              -> "whiteNoiseDither"
      [] alg = "RANDOM_DITHER"            -> "randomDither"
      [] alg = "PATTERN_DITHER"           -> "patternDither"
      [] alg = "DOT_DIFFUSION"            -> "dotDiffusion"
      [] alg = "RIEMERSMA"                -> "riemersma"
      [] alg = "GRADIENT_BASED"           -> "gradientBased"
      [] alg = "VARIABLE_ERROR_DIFFUSION" -> "variableErrorDiffusion"
      [] alg = "OSTROMOUKHOV"             -> "ostromoukhov"
      [] alg = "FAN"                      -> "fan"
      [] alg = "SHIAU_FAN"                -> "shiauFan"
      [] alg = "STEVENPIGEON"             -> "stevenPigeon"
      [] OTHER                            -> "floydSteinberg"

\* The implementations built on the error accumulator and diffuseError.
DiffusionImpls ==
    {"floydSteinberg", "atkinson", "jarvisJudiceNinke", "stucki", "burkes",
     "sierra", "sierraTwo", "sierraLite", "gradientBased",
     "variableErrorDiffusion", "ostromoukhov", "fan", "shiauFan",
     "stevenPigeon"}

\* The implementations that add a threshold-derived offset to each sample.
ThresholdImpls ==
    {"orderedDither", "blueNoiseDither", "whiteNoiseDither", "randomDither",
     "patternDither"}

\* The kernel table an implementation declares.
ImplKernel(im) ==
    Kernel(CASE im = "atkinson"          -> "ATKINSON"
             [] im = "jarvisJudiceNinke" -> "JARVIS_JUDICE_NINKE"
             [] im = "stucki"            -> "STUCKI"
             [] im = "burkes"            -> "BURKES"
             [] im = "sierra"            -> "SIERRA"
             [] im = "sierraTwo"         -> "SIERRA_TWO_ROW"
             [] im = "sierraLite"        -> "SIERRA_LITE"
             [] im = "fan"               -> "FAN"
             [] im = "shiauFan"          -> "SHIAU_FAN"
             [] im = "stevenPigeon"      -> "STEVENPIGEON"
             [] OTHER                    -> "FLOYD_STEINBERG")


(***************************************************************************)
(* State                                                                   *)
(*   pc          where the program is: "idle", inside generateBayerMatrix  *)
(*               ("bayer_call" descending, "bayer_return" unwinding),      *)
(*               "scan" (the pixel loops), "done" (ditherImage returned),  *)
(*               "stack_overflow" (the recursion exhausted the stack),     *)
(*               "exception" (gradientBased's cv::cvtColor threw on an     *)
(*               empty image)                                              *)
(*   calls       ditherImage calls started so far                          *)
(*   input       the cv::Mat passed to ditherImage                         *)
(*   params      the Parameters passed to ditherImage                      *)
(*   impl        the implementation the dispatcher routed to               *)
(*   pre         preprocessImage's result: the `input` of the algorithm    *)
(*   result      the algorithm's `result` buffer (the returned image)      *)
(*   visited     the pixels the loops have processed                       *)
(*   errors      the accumulator grid `errors`, in units of 1/FP           *)
(*   palette     the local `palette`                                       *)
(*   bayerStack  the sizes of the active generateBayerMatrix frames        *)
(*   bayerMatrix the matrix the innermost finished frame returned          *)
(*   rng         the local std::mt19937: its seed and the draws made       *)
(*   carry       riemersma's scalar `error`, in units of 1/FP              *)
(*   gradient    gradientBased's normalised edge map, in units of 1/64     *)
(*   pos         the loop variables y, x                                   *)
(*   injected    sum of |amount added to errors| by the last diffuseError  *)
(*   generated   sum of |quantError| of the last pixel                     *)
(*   first       input, params and output of the first call that returned  *)
(*   video       processVideo's state (AppState's video fields, the frames  *)
(*               read and written) and the user's cancellation request     *)
(*   probe       the last direct call of a helper function: its name, its   *)
(*               arguments and the value it returned                       *)
(*   app         the GUI's AppState (image and control fields), the last    *)
(*               GUI event, and the argument and the return value of the   *)
(*               last loadImage call                                       *)
(***************************************************************************)
VARIABLES pc, calls, input, params, impl, pre, result, visited, errors,
          palette, bayerStack, bayerMatrix, rng, carry, gradient, pos,
          injected, generated, first, video, probe, app

vars == << pc, calls, input, params, impl, pre, result, visited, errors,
           palette, bayerStack, bayerMatrix, rng, carry, gradient, pos,
           injected, generated, first, video, probe, app >>

NoImage == [rows |-> 0, cols |-> 0, px |-> << >>]

NoRng == [seed |-> 0, n |-> 0]

NoCall == [input |-> NoImage, params |-> DefaultParameters, output |-> << >>,
           valid |-> FALSE]

Zero3 == <<0, 0, 0>>

\* A progress value: the float num / den (den = 0 with num > 0 is +inf).
NoProgress == [num |-> 0, den |-> 1]

\* AppState's video fields before processVideo was called.
\*   phase             "idle", "running" (videoProcessing is true) or
\*                     "finished"
\*   params            state.params
\*   totalFrames       state.totalFrames: the container's CAP_PROP_FRAME_COUNT
\*   frames            the frames cap.read can actually decode
\*   read              the frames cap.read has delivered
\*   currentFrame      state.currentFrame
\*   written           the frames handed to writer.write
\*   videoProgress     state.videoProgress
\*   previousProgress  the value videoProgress had before its last assignment
\*   cancelRequested   the user has asked to cancel the job
\*   cancelAt          `read` at the time of that request
NoVideo ==
    [phase |-> "idle", params |-> DefaultParameters, totalFrames |-> 0,
     frames |-> 0, read |-> 0, currentFrame |-> 0, written |-> 0,
     videoProgress |-> NoProgress, previousProgress |-> NoProgress,
     cancelRequested |-> FALSE, cancelAt |-> 0]

NoProbe == [fn |-> "none"]

\* AppState as main constructs it (main.cpp 20-53).  autoUpdate keeps its
\* default, true: the checkbox is not operated.
NoApp ==
    [originalImage |-> NoImage, processedImage |-> NoImage,
     currentFile |-> "", imageLoaded |-> FALSE, isVideo |-> FALSE,
     processing |-> FALSE, autoUpdate |-> TRUE,
     selectedAlgorithm |-> 0, selectedPalette |-> 0,
     params |-> DefaultParameters,
     event |-> "none", filename |-> "", returned |-> TRUE]

Init ==
    /\ pc = "idle"
    /\ calls = 0
    /\ input = NoImage
    /\ params = DefaultParameters
    /\ impl = "none"
    /\ pre = NoImage
    /\ result = << >>
    /\ visited = {}
    /\ errors = << >>
    /\ palette = << >>
    /\ bayerStack = << >>
    /\ bayerMatrix = NoMatrix
    /\ rng = NoRng
    /\ carry = Zero3
    /\ gradient = << >>
    /\ pos = [y |-> 0, x |-> 0]
    /\ injected = 0
    /\ generated = 0
    /\ first = NoCall
    /\ video = NoVideo
    /\ probe = NoProbe
    /\ app = NoApp

(***************************************************************************)
(* The engine local to an implementation                                   *)
(***************************************************************************)
\* A variant with a function-static engine: seeded by the first call that
\* needs it, and continued by the next ones.
SeedRngStatic(seed) == IF rng = NoRng THEN [seed |-> seed, n |-> 0] ELSE rng

\* std::mt19937 rng(seed): a fresh engine that has made no draw.
SeedRng(seed) == [seed |-> seed, n |-> 0]

\* dist(rng) for dist(0.0f, 1.0f)
RngValue(r) == MtCanonical(r.seed, r.n)

RngAdvance(r) == [r EXCEPT !.n = r.n + 1]

(***************************************************************************)
(* Scan order.  floydSteinberg reverses odd rows when serpentine > 0.5     *)
(* (platform.h 144-147), riemersma reverses every odd row (725-728), the   *)
(* others scan left to right.                                              *)
(***************************************************************************)
SerpentineOn(p) == 2 * p.serpentine > QU

ReverseRow(im, p, y) ==
    CASE im = "floydSteinberg" -> SerpentineOn(p) /\ y % 2 = 1
      [] im = "riemersma"      -> y % 2 = 1
      [] OTHER                 -> FALSE

\* A variant in which every row starts at the left end.
RowStartLeft(im, p, y, cols) == 0

RowStart(im, p, y, cols) == IF ReverseRow(im, p, y) THEN cols - 1 ELSE 0

RowEnd(im, p, y, cols) == IF ReverseRow(im, p, y) THEN -1 ELSE cols

RowStep(im, p, y) == IF ReverseRow(im, p, y) THEN -1 ELSE 1

\* `x += step`, and the start of the next row when x reaches `end`.
NextPos(im, p, q, cols) ==
    IF q.x + RowStep(im, p, q.y) = RowEnd(im, p, q.y, cols)
    THEN [y |-> q.y + 1, x |-> RowStart(im, p, q.y + 1, cols)]
    ELSE [y |-> q.y, x |-> q.x + RowStep(im, p, q.y)]

(***************************************************************************)
(* The per-pixel arithmetic of the error-diffusion implementations         *)
(***************************************************************************)
\* oldPixel + errorVal, each channel clamped to [0, 255]
NewPixelF(old, err) == [k \in 1..3 |-> Clamp(old[k] * FP + err[k], 0, 255 * FP)]

\* static_cast<uchar> of each (non-negative) channel
ToBytes(f) == [k \in 1..3 |-> f[k] \div FP]

\* A variant with the operands swapped: quantized - newPixelF.
QuantErrorSwapped(newF, q) == [k \in 1..3 |-> q[k] * FP - newF[k]]

\* newPixelF - quantized
QuantError(newF, q) == [k \in 1..3 |-> newF[k] - q[k] * FP]

\* dist(rng) for dist(0.7f, 1.3f), in units of 1/64
VarDraw(r) == (7 * TS * 64 + 6 * RngValue(r) * 64) \div (10 * TS)

\* (newPixelF[0] + newPixelF[1] + newPixelF[2]) / (3 * 255), in units of 1/64
Intensity(newF) == ((newF[1] + newF[2] + newF[3]) * 64) \div (765 * FP)

\* The `weights` vector handed to diffuseError, as fractions n / d.
Weights(im, newF, r) ==
    LET kn == ImplKernel(im)
    IN  CASE im = "variableErrorDiffusion" ->
                [i \in DOMAIN kn.num |->
                    [n |-> kn.num[i] * VarDraw(r), d |-> kn.den * 64]]
          [] im = "ostromoukhov" ->
                LET w == << 7 * 64 - 4 * Intensity(newF),
                            3 * 64 + 4 * Intensity(newF), 5 * 64, 64 >>
                IN  [i \in 1..4 |-> [n |-> w[i], d |-> SumSeq(w)]]
          [] OTHER ->
                [i \in DOMAIN kn.num |-> [n |-> kn.num[i], d |-> kn.den]]

\* The `strength` handed to diffuseError, as a fraction n / d:
\* gradientBased passes params.strength * (0.5 + gradWeight * 0.5).
StrengthArg(im, p, g) ==
    IF im = "gradientBased"
    THEN [n |-> p.strength * (64 + g), d |-> QU * 128]
    ELSE [n |-> p.strength, d |-> QU]

\* The `serpentine` handed to diffuseError: only floydSteinberg passes the
\* parameter, every other implementation passes false.
\* A variant in which every implementation passes the parameter.
SerpentineArgAlways(im, p) == SerpentineOn(p)

SerpentineArg(im, p) == im = "floydSteinberg" /\ SerpentineOn(p)

(***************************************************************************)
(* diffuseError (platform.h 118-131)                                       *)
(***************************************************************************)
\* A variant that applies the offsets as given on every row.
DiffuseTargetUnreversed(x, y, off, serp) == <<y + off[2], x + off[1]>>

DiffuseTarget(x, y, off, serp) ==
    <<y + off[2], x + off[1] * (IF serp /\ y % 2 = 1 THEN -1 ELSE 1)>>

\* A variant that forgets the weight: error * strength.
DiffuseAmountUnweighted(error, w, st) ==
    [k \in 1..3 |-> TruncDiv(error[k] * st.n, st.d)]

\* error * weights[i] * strength
DiffuseAmount(error, w, st) ==
    [k \in 1..3 |-> TruncDiv(TruncDiv(error[k] * w.n, w.d) * st.n, st.d)]

diffuseError(errs, x, y, error, offsets, weights, st, serp) ==
    [c \in DOMAIN errs |->
        IF \E i \in DOMAIN offsets : DiffuseTarget(x, y, offsets[i], serp) = c
        THEN LET i == CHOOSE j \in DOMAIN offsets :
                          DiffuseTarget(x, y, offsets[j], serp) = c
                 a == DiffuseAmount(error, weights[i], st)
             IN  [k \in 1..3 |-> errs[c][k] + a[k]]
        ELSE errs[c]]

Norm1(v) == Abs(v[1]) + Abs(v[2]) + Abs(v[3])

RECURSIVE InjectedFrom(_, _, _, _, _, _, _, _, _)
InjectedFrom(i, grid, x, y, error, offsets, weights, st, serp) ==
    IF i > Len(offsets) THEN 0
    ELSE (IF DiffuseTarget(x, y, offsets[i], serp) \in grid
          THEN Norm1(DiffuseAmount(error, weights[i], st))
          ELSE 0)
         + InjectedFrom(i + 1, grid, x, y, error, offsets, weights, st, serp)


(***************************************************************************)
(* Inputs of the calls                                                     *)
(***************************************************************************)
\* strength, in quarters: 0, 1.0 and 2.0 (the documented range is [0, 2])
StrengthSet == {0, QU, 2 * QU}

\* serpentine, in quarters: 0 and 0.5 (off), 1.0 (on)
SerpentineSet == {0, 2, QU}

\* contrast, in quarters: 1.0 and 0.5
ContrastSet == {QU, QU \div 2}

\* brightness, in quarters: -0.5, 0 and 0.25
BrightnessSet == {-2, 0, 1}

\* gamma, in quarters: 1.0 and 2.0
GammaSet == {QU, 2 * QU}

\* The palette of the README's "Custom Palettes" example.
ReadmeCustomPalette ==
    << <<0, 0, 0>>, <<255, 0, 0>>, <<0, 255, 0>>, <<0, 0, 255>> >>

CustomPalettesFor(mode) ==
    IF mode = "CUSTOM" THEN {<< >>, ReadmeCustomPalette} ELSE {<< >>}

\* bayerSize values: the documented ones and out-of-domain ones
BayerSizes == {-2, 0, 1, 2, 3, 4, 5, 6, 8, 16}

\* The inputs of a call are drawn from a universe: a record of sets.  A
\* field a call cannot read keeps its default: bayerSize is read by
\* orderedDither only, seed by the seeded implementations only;
\* serpentine is varied for the algorithms in `serpAlgs`.
SerpentinesFor(u, alg) == IF alg \in u.serpAlgs THEN SerpentineSet ELSE {QU}

BayerSizesFor(u, alg) == IF alg \in OrderedBayerAlgorithms THEN u.sizes ELSE {8}

SeedsFor(u, alg) == IF alg \in SeededAlgorithms THEN u.seeds ELSE {42}

MakeParameters(alg, mode, cp, st, se, bs, sd) ==
    [DefaultParameters EXCEPT
        !.algorithm = alg, !.paletteMode = mode, !.customPalette = cp,
        !.strength = st, !.serpentine = se, !.bayerSize = bs, !.seed = sd]

\* Every algorithm, every palette mode, every image.
ApiInputs ==
    [images |-> Images \cup DegenerateImages, algs |-> Algorithms,
     modes |-> PaletteModes,
     strengths |-> StrengthSet,
     serpAlgs |-> {"FLOYD_STEINBERG", "RIEMERSMA", OutOfEnum},
     sizes |-> {2, 3, 8}, seeds |-> Seeds]

\* Ordered dithering with every bayerSize.
BayerInputs ==
    [images |-> Images, algs |-> OrderedBayerAlgorithms,
     modes |-> {"MONOCHROME", "GRAYSCALE_4"}, strengths |-> StrengthSet,
     serpAlgs |-> {}, sizes |-> BayerSizes, seeds |-> Seeds]

\* The calls of a session: every algorithm and seed on two images.
SessionImages ==
    { [rows |-> 1, cols |-> 1, px |-> [c \in Coords(1, 1) |-> Gray(255)]],
      [rows |-> 2, cols |-> 2, px |-> [c \in Coords(2, 2) |-> Gray(128)]] }

SessionInputs ==
    [images |-> SessionImages, algs |-> Algorithms, modes |-> {"MONOCHROME"},
     strengths |-> {QU}, serpAlgs |-> {"FLOYD_STEINBERG"}, sizes |-> {2, 8},
     seeds |-> Seeds]

\* Calls on the 2x2 image that differ in the algorithm and in serpentine.
SerpentineInputs ==
    [SessionInputs EXCEPT !.images = {img \in SessionImages : img.rows = 2},
                          !.serpAlgs = Algorithms, !.seeds = {42}]

(***************************************************************************)
(* ditherImage (platform.h 63-115): preprocessing, the switch, and the     *)
(* declarations at the top of the implementation it routes to.             *)
(* orderedDither first calls generateBayerMatrix; its palette and result   *)
(* are set up when that call has returned.                                 *)
(***************************************************************************)
\* A variant whose accumulator does not start at zero.
UnitErrors(img) == [c \in Coords(img.rows, img.cols) |-> <<FP, FP, FP>>]

ZeroErrors(img) == [c \in Coords(img.rows, img.cols) |-> Zero3]

ditherImage(img, p) ==
    LET im == Route(p.algorithm)
        pp == preprocessImage(img, p)
    IN  /\ input' = img
        /\ params' = p
        /\ impl' = im
        /\ pre' = pp
        /\ calls' = calls + 1
        /\ visited' = {}
        /\ pos' = [y |-> 0, x |-> 0]
        /\ injected' = 0
        /\ generated' = 0
        /\ bayerMatrix' = NoMatrix
        /\ carry' = Zero3
        /\ first' = first
        /\ IF im = "orderedDither"
           THEN /\ pc' = "bayer_call"
                /\ bayerStack' = << p.bayerSize >>
                /\ result' = << >>
                /\ palette' = << >>
                /\ errors' = << >>
                /\ gradient' = << >>
                /\ rng' = NoRng
           ELSE /\ pc' = IF im = "gradientBased" /\ Empty(pp)
                         THEN "exception" ELSE "scan"
                /\ bayerStack' = << >>
                /\ result' = pp.px
                /\ palette' = getPalette(p.paletteMode)
                /\ errors' = IF im \in DiffusionImpls \cup {"dotDiffusion"}
                             THEN ZeroErrors(pp) ELSE << >>
                /\ gradient' = IF im = "gradientBased" /\ ~Empty(pp)
                               THEN GradientMap(pp) ELSE << >>
                /\ rng' = IF im \in {"whiteNoiseDither", "randomDither",
                                     "variableErrorDiffusion"}
                          THEN SeedRng(p.seed) ELSE NoRng

\* A caller of the library passes an image and a Parameters value.
ApiCall(u, limit) ==
    /\ pc \in {"idle", "done"}
    /\ calls < limit
    /\ \E alg \in u.algs, mode \in u.modes, img \in u.images, st \in u.strengths :
         \E cp \in CustomPalettesFor(mode), se \in SerpentinesFor(u, alg),
            bs \in BayerSizesFor(u, alg), sd \in SeedsFor(u, alg) :
              ditherImage(img, MakeParameters(alg, mode, cp, st, se, bs, sd))
    /\ UNCHANGED << video, probe, app >>

(***************************************************************************)
(* The CLI (main, parseAlgorithm, parsePalette).  The runs modelled pass  *)
(* --algorithm, --palette, --strength and --contrast; every other field    *)
(* keeps the default of Parameters.                                        *)
(***************************************************************************)
CliAlgorithmNames ==
    << "floyd-steinberg", "atkinson", "jarvis", "stucki", "burkes", "sierra",
       "sierra-two", "sierra-lite", "bayer-2x2", "bayer-4x4", "bayer-8x8",
       "bayer-16x16", "blue-noise", "white-noise", "random", "pattern",
       "dot-diffusion", "riemersma", "gradient", "variable", "ostromoukhov",
       "fan", "shiau-fan", "steven-pigeon" >>

CliPaletteNames ==
    << "monochrome", "gray4", "gray8", "gray16", "cga", "ega", "vga",
       "gameboy", "pico8" >>

parseAlgorithm(name) ==
    IF \E i \in DOMAIN CliAlgorithmNames : CliAlgorithmNames[i] = name
    THEN AlgorithmEnum[CHOOSE i \in DOMAIN CliAlgorithmNames :
                           CliAlgorithmNames[i] = name]
    ELSE "FLOYD_STEINBERG"

parsePalette(name) ==
    IF \E i \in DOMAIN CliPaletteNames : CliPaletteNames[i] = name
    THEN PaletteModeEnum[CHOOSE i \in DOMAIN CliPaletteNames :
                             CliPaletteNames[i] = name]
    ELSE "MONOCHROME"

CliParameters(algName, palName, st, ct) ==
    [DefaultParameters EXCEPT !.algorithm = parseAlgorithm(algName),
                              !.paletteMode = parsePalette(palName),
                              !.strength = st,
                              !.contrast = ct]

CliMain ==
    /\ pc = "idle"
    /\ calls = 0
    /\ \E algName \in Range(CliAlgorithmNames) \cup {"bogus"},
          palName \in {"monochrome", "gray4", "pico8", "bogus"},
          st \in StrengthSet,
          ct \in ContrastSet,
          img \in Images :
            ditherImage(img, CliParameters(algName, palName, st, ct))
    /\ UNCHANGED << video, probe, app >>


(***************************************************************************)
(* generateBayerMatrix, one frame at a time                                *)
(***************************************************************************)
Top(st) == st[Len(st)]

Pop(st) == SubSeq(st, 1, Len(st) - 1)

\* generateBayerMatrix returned `mat` to the frame below; the outermost
\* frame returns to orderedDither, which then reads the palette and clones
\* its input (platform.h 521-522).
BayerReturn(mat) ==
    /\ bayerMatrix' = mat
    /\ bayerStack' = Pop(bayerStack)
    /\ IF Len(bayerStack) = 1
       THEN /\ pc' = "scan"
            /\ palette' = getPalette(params.paletteMode)
            /\ result' = pre.px
       ELSE /\ pc' = "bayer_return"
            /\ UNCHANGED << palette, result >>
    /\ UNCHANGED << calls, input, params, impl, pre, visited, errors, rng,
                    carry, gradient, pos, injected, generated, first, video,
                    probe, app >>

\* size != 2: the frame calls generateBayerMatrix(size / 2).
BayerDescend ==
    /\ pc = "bayer_call"
    /\ Top(bayerStack) # 2
    /\ Len(bayerStack) < MaxStackDepth
    /\ bayerStack' = Append(bayerStack, TruncDiv(Top(bayerStack), 2))
    /\ UNCHANGED << pc, calls, input, params, impl, pre, result, visited,
                    errors, palette, bayerMatrix, rng, carry, gradient, pos,
                    injected, generated, first, video, probe, app >>

\* The recursion has filled the stack: the process dies.
BayerOverflow ==
    /\ pc = "bayer_call"
    /\ Top(bayerStack) # 2
    /\ Len(bayerStack) >= MaxStackDepth
    /\ pc' = "stack_overflow"
    /\ UNCHANGED << calls, input, params, impl, pre, result, visited, errors,
                    palette, bayerStack, bayerMatrix, rng, carry, gradient,
                    pos, injected, generated, first, video, probe, app >>

\* size == 2: the base case returns the 2x2 matrix.
BayerBaseCase ==
    /\ pc = "bayer_call"
    /\ Top(bayerStack) = 2
    /\ BayerReturn(BayerBase)

\* A frame whose recursive call returned builds its matrix and returns.
BayerCombineStep ==
    /\ pc = "bayer_return"
    /\ BayerReturn(BayerCombine(bayerMatrix, Top(bayerStack)))

(***************************************************************************)
(* One iteration of the pixel loops                                        *)
(***************************************************************************)
InScan == pc = "scan" /\ pos.y < pre.rows

Here == <<pos.y, pos.x>>

Advance ==
    /\ pos' = NextPos(impl, params, pos, pre.cols)
    /\ visited' = visited \cup {Here}

\* The error-diffusion implementations (e.g. floydSteinberg, 149-171).
DiffusePixel ==
    /\ InScan
    /\ impl \in DiffusionImpls
    /\ LET newF == NewPixelF(result[Here], errors[Here])
           quantized == findClosestColor(ToBytes(newF), palette)
           quantError == QuantError(newF, quantized)
           offsets == ImplKernel(impl).offsets
           weights == Weights(impl, newF, rng)
           st == StrengthArg(impl, params,
                             IF impl = "gradientBased" THEN gradient[Here] ELSE 0)
           serp == SerpentineArg(impl, params)
       IN  /\ result' = [result EXCEPT ![Here] = quantized]
           /\ errors' = diffuseError(errors, pos.x, pos.y, quantError, offsets,
                                     weights, st, serp)
           /\ injected' = InjectedFrom(1, DOMAIN errors, pos.x, pos.y,
                                       quantError, offsets, weights, st, serp)
           /\ generated' = Norm1(quantError)
    /\ rng' = IF impl = "variableErrorDiffusion" THEN RngAdvance(rng) ELSE rng
    /\ Advance
    /\ UNCHANGED << pc, calls, input, params, impl, pre, palette, bayerStack,
                    bayerMatrix, carry, gradient, first, video, probe, app >>

\* The threshold of the pixel, in units of 1/TS.
Threshold ==
    CASE impl = "orderedDither" ->
            bayerMatrix.m[<<pos.y % params.bayerSize, pos.x % params.bayerSize>>]
      [] impl = "blueNoiseDither" ->
            generateBlueNoiseTexture(params.seed)[(pos.y % 256) + 1][(pos.x % 256) + 1]
      [] impl = "patternDither" ->
            PatternTable[(pos.y % 4) + 1][(pos.x % 4) + 1]
      [] OTHER -> RngValue(rng)

\* A variant that leaves out `* params.strength`.
AdjustedPixelUnscaled(pixel, t, strength) ==
    [k \in 1..3 |->
        Clamp(pixel[k] * 2 * TS + (510 * t - 255 * TS), 0, 255 * 2 * TS)
            \div (2 * TS)]

\* pixelF + (threshold * 255.0f - 127.5f) * strength, clamped and cast to
\* uchar; the sum is formed in units of 1 / (2 * TS).
AdjustedPixel(pixel, t, strength) ==
    [k \in 1..3 |->
        Clamp(pixel[k] * 2 * TS + ((510 * t - 255 * TS) * strength) \div QU,
              0, 255 * 2 * TS) \div (2 * TS)]

\* orderedDither, blueNoiseDither, whiteNoiseDither (randomDither),
\* patternDither: they read the pixel from `input`, not from `result`.
ThresholdPixel ==
    /\ InScan
    /\ impl \in ThresholdImpls
    /\ result' = [result EXCEPT ![Here] =
                     findClosestColor(
                         AdjustedPixel(pre.px[Here], Threshold, params.strength),
                         palette)]
    /\ rng' = IF impl \in {"whiteNoiseDither", "randomDither"}
              THEN RngAdvance(rng) ELSE rng
    /\ Advance
    /\ UNCHANGED << pc, calls, input, params, impl, pre, errors, palette,
                    bayerStack, bayerMatrix, carry, gradient, injected,
                    generated, first, video, probe, app >>

\* dotDiffusion (683-709): the class value shifts the sample; nothing is
\* written to `errors`.
DotPixel ==
    /\ InScan
    /\ impl = "dotDiffusion"
    /\ LET classVal == ClassMatrix[(pos.y % 8) + 1][(pos.x % 8) + 1]
           shift == TruncDiv((2 * classVal - 64) * FP * params.strength, QU)
           newF == [k \in 1..3 |->
                      Clamp(result[Here][k] * FP + errors[Here][k] + shift,
                            0, 255 * FP)]
       IN  result' = [result EXCEPT ![Here] =
                         findClosestColor(ToBytes(newF), palette)]
    /\ Advance
    /\ UNCHANGED << pc, calls, input, params, impl, pre, errors, palette,
                    bayerStack, bayerMatrix, rng, carry, gradient, injected,
                    generated, first, video, probe, app >>

\* A variant without the decay.
NoDecay(e) == e

\* e * decay, with decay = 0.8f
Decay(e) == TruncDiv(e * 4, 5)

\* riemersma (730-751): one carried error, decayed by 0.8.
RiemersmaPixel ==
    /\ InScan
    /\ impl = "riemersma"
    /\ LET pixelF == [k \in 1..3 |->
                        Clamp(pre.px[Here][k] * FP
                                  + TruncDiv(carry[k] * params.strength, QU),
                              0, 255 * FP)]
           quantized == findClosestColor(ToBytes(pixelF), palette)
       IN  /\ result' = [result EXCEPT ![Here] = quantized]
           /\ carry' = [k \in 1..3 |-> Decay(pixelF[k] - quantized[k] * FP)]
    /\ Advance
    /\ UNCHANGED << pc, calls, input, params, impl, pre, errors, palette,
                    bayerStack, bayerMatrix, rng, gradient, injected,
                    generated, first, video, probe, app >>

\* The loops are over: the implementation returns `result`, and ditherImage
\* returns it to its caller.
Return ==
    /\ pc = "scan"
    /\ pos.y >= pre.rows
    /\ pc' = "done"
    /\ first' = IF first.valid THEN first
                ELSE [input |-> input, params |-> params, output |-> result,
                      valid |-> TRUE]
    /\ UNCHANGED << calls, input, params, impl, pre, result, visited, errors,
                    palette, bayerStack, bayerMatrix, rng, carry, gradient,
                    pos, injected, generated, video, probe, app >>

(***************************************************************************)
(* Direct calls of the helper functions the header exports (dithering.h   *)
(* 100-106), with arguments of the caller's choice.  The functions keep no *)
(* state, so one call per behaviour shows all there is to see.             *)
(***************************************************************************)
EngineVars ==
    << pc, calls, input, params, impl, pre, result, visited, errors, palette,
       bayerStack, bayerMatrix, rng, carry, gradient, pos, injected,
       generated, first >>

\* Palettes a caller can pass to findClosestColor: the presets, the README's
\* custom palette, and palettes with equally distant and repeated entries.
ProbePalettes ==
    { MonochromePalette, GrayscalePalette(4), GrayscalePalette(8),
      GrayscalePalette(16), CgaPalette, GameboyPalette, Pico8Palette }
    \cup { ReadmeCustomPalette,
           << Gray(10), Gray(20), Gray(0) >>,
           << Gray(20), Gray(10), Gray(0) >>,
           << Gray(255), Gray(0), Gray(255) >>,
           << <<0, 0, 2>>, <<0, 2, 0>>, <<2, 0, 0>> >>,
           << Gray(7) >> }

\* Colours a caller can pass: every entry of those palettes, and colours
\* between entries.
ProbeColors ==
    UNION {Range(pal) : pal \in ProbePalettes}
    \cup { Gray(15), Gray(127), Gray(128), Gray(1), <<128, 128, 0>>,
           <<1, 1, 1>>, <<255, 255, 0>>, <<0, 1, 1>>, <<200, 100, 50>> }

FindClosestColorCall ==
    /\ probe = NoProbe
    /\ \E color \in ProbeColors, pal \in ProbePalettes :
         probe' = [fn |-> "findClosestColor", color |-> color,
                   palette |-> pal, out |-> findClosestColor(color, pal)]
    /\ UNCHANGED EngineVars
    /\ UNCHANGED << video, app >>

GetPaletteCall ==
    /\ probe = NoProbe
    /\ \E mode \in PaletteModes :
         probe' = [fn |-> "getPalette", mode |-> mode, out |-> getPalette(mode)]
    /\ UNCHANGED EngineVars
    /\ UNCHANGED << video, app >>

\* A one-pixel image whose three channels run over every byte as v does.
BytePixelImage(v) ==
    [rows |-> 1, cols |-> 1,
     px |-> [c \in Coords(1, 1) |-> << v, (v + 85) % 256, 255 - v >>]]

PreprocessImageCall ==
    /\ probe = NoProbe
    /\ \E v \in 0..255, ct \in ContrastSet, br \in BrightnessSet,
          ga \in GammaSet :
         LET img == BytePixelImage(v)
             p == [DefaultParameters EXCEPT !.contrast = ct, !.brightness = br,
                                            !.gamma = ga]
         IN  probe' = [fn |-> "preprocessImage", image |-> img, params |-> p,
                       out |-> preprocessImage(img, p)]
    /\ UNCHANGED EngineVars
    /\ UNCHANGED << video, app >>

(***************************************************************************)
(* processVideo (main.cpp 128-165).  The function opens the input and the  *)
(* output, then loops: cap.read, ditherImage, writer.write, currentFrame++ *)
(* and the assignment of videoProgress.  The loop reads no flag of         *)
(* AppState and no other input: a cancellation request of the user is an   *)
(* event of the environment that changes nothing the loop looks at.        *)
(***************************************************************************)
\* state.params during a job: an error-diffusion and a threshold algorithm.
VideoParameters ==
    { [DefaultParameters EXCEPT !.algorithm = alg] :
        alg \in {"FLOYD_STEINBERG", "WHITE_NOISE"} }

\* The frames of a video: equally sized images.
VideoFrames == ImagesOfSize(1, 2)

\* Up to the first cap.read.  `ok` is false when the capture or the writer
\* fails to open; the frame count comes from the container's metadata and
\* need not be the number of frames the stream decodes to.
VideoOpen ==
    /\ video.phase = "idle"
    /\ pc = "idle"
    /\ \E ok \in BOOLEAN, p \in VideoParameters,
          count \in 0..MaxFrames, n \in 0..MaxFrames :
         video' = IF ok
                  THEN [video EXCEPT !.phase = "running", !.params = p,
                                     !.totalFrames = count, !.frames = n,
                                     !.currentFrame = 0,
                                     !.videoProgress = NoProgress]
                  ELSE [video EXCEPT !.phase = "finished", !.params = p,
                                     !.videoProgress = NoProgress]
    /\ UNCHANGED EngineVars
    /\ UNCHANGED << probe, app >>

\* cap.read(frame) returned true: ditherImage(frame, state.params) starts.
VideoReadFrame ==
    /\ video.phase = "running"
    /\ pc \in {"idle", "done"}
    /\ video.read = video.currentFrame
    /\ video.read < video.frames
    /\ \E frame \in VideoFrames : ditherImage(frame, video.params)
    /\ video' = [video EXCEPT !.read = @ + 1]
    /\ UNCHANGED << probe, app >>

\* ditherImage returned: writer.write(dithered), state.currentFrame++ and
\* state.videoProgress = float(currentFrame) / totalFrames.
VideoWriteFrame ==
    /\ video.phase = "running"
    /\ pc = "done"
    /\ video.read = video.currentFrame + 1
    /\ video' = [video EXCEPT
                   !.written = @ + 1,
                   !.currentFrame = @ + 1,
                   !.previousProgress = video.videoProgress,
                   !.videoProgress = [num |-> video.currentFrame + 1,
                                      den |-> video.totalFrames]]
    /\ UNCHANGED EngineVars
    /\ UNCHANGED << probe, app >>

\* cap.read(frame) returned false: release, videoProcessing = false.
VideoEnd ==
    /\ video.phase = "running"
    /\ video.read = video.currentFrame
    /\ video.read = video.frames
    /\ video' = [video EXCEPT !.phase = "finished"]
    /\ UNCHANGED EngineVars
    /\ UNCHANGED << probe, app >>

\* The user asks to cancel the running job.
RequestCancel ==
    /\ video.phase = "running"
    /\ ~video.cancelRequested
    /\ video' = [video EXCEPT !.cancelRequested = TRUE,
                              !.cancelAt = video.read]
    /\ UNCHANGED EngineVars
    /\ UNCHANGED << probe, app >>

(***************************************************************************)
(* The GUI (main.cpp): processImage, loadImage and one renderGUI pass per  *)
(* user event.  A pass runs its widgets in the order of the code: the      *)
(* algorithm combo, the palette combo, the sliders, the bayerSize          *)
(* assignment, the seed slider, the needsUpdate call, "Load Test Image",   *)
(* "Reset Parameters".  processImage is synchronous: the pass resumes when *)
(* ditherImage has returned; what the pass assigns after the call is       *)
(* written together with the call, since nothing reads it in between.      *)
(***************************************************************************)
\* The combo entries operated: Floyd-Steinberg, Ordered Bayer 2x2 and 4x4,
\* White Noise; Monochrome and Grayscale 4.
GuiAlgorithms == {0, 8, 9, 13}

GuiPalettes == {0, 1}

\* The image "Load Test Image" builds, and the files loadImage is given: a
\* small image stands for the 512x512 gradient, an image cv::imread
\* decodes for one file, and an empty cv::Mat for a file it cannot decode.
TestImage == [rows |-> 2, cols |-> 2, px |-> [c \in Coords(2, 2) |-> Gray(128)]]

GuiFiles ==
    [name \in {"photo.png", "broken.png"} |->
        IF name = "photo.png"
        THEN [rows |-> 1, cols |-> 2, px |-> [c \in Coords(1, 2) |-> Gray(255)]]
        ELSE NoImage]

\* if (selectedAlgorithm >= 8 && selectedAlgorithm <= 11)
\*     params.bayerSize = bayerSizes[selectedAlgorithm - 8];
GuiBayerSize(a) ==
    IF a.selectedAlgorithm >= 8 /\ a.selectedAlgorithm <= 11
    THEN [a EXCEPT !.params.bayerSize = << 2, 4, 8, 16 >>[a.selectedAlgorithm - 7]]
    ELSE a

\* processImage(state), called with AppState `a`; `rest` is `a` with what
\* the caller assigns after the call.  The early return changes nothing;
\* otherwise processing is set and ditherImage(originalImage, params) runs.
processImage(a, rest) ==
    IF ~a.imageLoaded \/ Empty(a.originalImage)
    THEN /\ app' = rest
         /\ UNCHANGED EngineVars
    ELSE /\ ditherImage(a.originalImage, a.params)
         /\ app' = [rest EXCEPT !.processing = TRUE]

\* ditherImage returned to processImage: processedImage is assigned and
\* processing is cleared.
ProcessImageReturn ==
    /\ app.processing
    /\ pc = "done"
    /\ app' = [app EXCEPT !.processedImage = [pre EXCEPT !.px = result],
                          !.processing = FALSE]
    /\ UNCHANGED EngineVars
    /\ UNCHANGED << video, probe >>

\* The GUI thread is between two calls.
GuiReady ==
    /\ ~app.processing
    /\ pc \in {"idle", "done"}
    /\ calls < MaxCalls

\* The algorithm combo changed: params.algorithm is assigned and, with
\* autoUpdate, processImage is called; bayerSize is assigned further down.
GuiSelectAlgorithm ==
    /\ GuiReady
    /\ \E sel \in GuiAlgorithms :
         LET a == [app EXCEPT !.selectedAlgorithm = sel,
                              !.params.algorithm = AlgorithmEnum[sel + 1],
                              !.event = "algorithm"]
         IN  /\ sel # app.selectedAlgorithm
             /\ IF a.autoUpdate
                THEN processImage(a, GuiBayerSize(a))
                ELSE app' = GuiBayerSize(a) /\ UNCHANGED EngineVars
    /\ UNCHANGED << video, probe >>

\* The palette combo changed.
GuiSelectPalette ==
    /\ GuiReady
    /\ \E sel \in GuiPalettes :
         LET a == [app EXCEPT !.selectedPalette = sel,
                              !.params.paletteMode = PaletteModeEnum[sel + 1],
                              !.event = "palette"]
         IN  /\ sel # app.selectedPalette
             /\ IF a.autoUpdate
                THEN processImage(a, GuiBayerSize(a))
                ELSE app' = GuiBayerSize(a) /\ UNCHANGED EngineVars
    /\ UNCHANGED << video, probe >>

\* The strength slider or the seed slider moved: needsUpdate, and the
\* call comes after the bayerSize assignment.
GuiSlider ==
    /\ GuiReady
    /\ \E st \in {0, QU}, sd \in Seeds :
         LET a == GuiBayerSize([app EXCEPT !.params.strength = st,
                                           !.params.seed = sd,
                                           !.event = "slider"])
         IN  /\ (st = app.params.strength) # (sd = app.params.seed)
             /\ IF a.autoUpdate
                THEN processImage(a, a)
                ELSE app' = a /\ UNCHANGED EngineVars
    /\ UNCHANGED << video, probe >>

\* "Load Test Image"
GuiLoadTestImage ==
    /\ GuiReady
    /\ LET a == [GuiBayerSize(app) EXCEPT !.originalImage = TestImage,
                                          !.imageLoaded = TRUE,
                                          !.currentFile = "test_gradient.png",
                                          !.event = "test"]
       IN  processImage(a, a)
    /\ UNCHANGED << video, probe >>

\* "Reset Parameters" (shown when an image is loaded)
GuiReset ==
    /\ GuiReady
    /\ app.imageLoaded
    /\ LET a == [app EXCEPT !.params = DefaultParameters,
                            !.selectedAlgorithm = 0,
                            !.selectedPalette = 0,
                            !.event = "reset"]
       IN  IF a.autoUpdate
           THEN processImage(a, a)
           ELSE app' = a /\ UNCHANGED EngineVars
    /\ UNCHANGED << video, probe >>

\* loadImage(state, filename)
LoadImage ==
    /\ GuiReady
    /\ \E filename \in DOMAIN GuiFiles :
         LET img == GuiFiles[filename]
             a == [app EXCEPT !.originalImage = img,
                              !.currentFile = filename,
                              !.imageLoaded = TRUE,
                              !.isVideo = FALSE,
                              !.event = "loadImage",
                              !.filename = filename,
                              !.returned = TRUE]
         IN  IF Empty(img)
             THEN /\ app' = [app EXCEPT !.event = "loadImage",
                                        !.filename = filename,
                                        !.returned = FALSE]
                  /\ UNCHANGED EngineVars
             ELSE processImage(a, a)
    /\ UNCHANGED << video, probe >>

(***************************************************************************)
(* Specifications                                                          *)
(***************************************************************************)
Steps ==
    \/ BayerDescend
    \/ BayerOverflow
    \/ BayerBaseCase
    \/ BayerCombineStep
    \/ DiffusePixel
    \/ ThresholdPixel
    \/ DotPixel
    \/ RiemersmaPixel
    \/ Return

\* One call of the library or one run of the CLI.
Next ==
    \/ ApiCall(ApiInputs, 1)
    \/ CliMain
    \/ Steps

Spec == Init /\ [][Next]_vars

\* One call of orderedDither, with every bayerSize.
NextBayer ==
    \/ ApiCall(BayerInputs, 1)
    \/ BayerDescend
    \/ BayerOverflow
    \/ BayerBaseCase
    \/ BayerCombineStep
    \/ ThresholdPixel
    \/ Return

SpecBayer == Init /\ [][NextBayer]_vars

\* A session: up to MaxCalls calls, one after the other.
NextSession ==
    \/ ApiCall(SessionInputs, MaxCalls)
    \/ BayerDescend
    \/ BayerBaseCase
    \/ BayerCombineStep
    \/ DiffusePixel
    \/ ThresholdPixel
    \/ DotPixel
    \/ RiemersmaPixel
    \/ Return

SpecSession == Init /\ [][NextSession]_vars

\* Two calls, one after the other, with every value of serpentine.
NextSerpentine ==
    \/ ApiCall(SerpentineInputs, 2)
    \/ BayerDescend
    \/ BayerBaseCase
    \/ BayerCombineStep
    \/ DiffusePixel
    \/ ThresholdPixel
    \/ DotPixel
    \/ RiemersmaPixel
    \/ Return

SpecSerpentine == Init /\ [][NextSerpentine]_vars

\* A session of the GUI.
NextGui ==
    \/ GuiSelectAlgorithm
    \/ GuiSelectPalette
    \/ GuiSlider
    \/ GuiLoadTestImage
    \/ GuiReset
    \/ LoadImage
    \/ ProcessImageReturn
    \/ BayerDescend
    \/ BayerBaseCase
    \/ BayerCombineStep
    \/ DiffusePixel
    \/ ThresholdPixel
    \/ Return

SpecGui == Init /\ [][NextGui]_vars

\* Direct calls of findClosestColor, getPalette and preprocessImage.
NextHelpers ==
    \/ FindClosestColorCall
    \/ GetPaletteCall
    \/ PreprocessImageCall

SpecHelpers == Init /\ [][NextHelpers]_vars

\* One video job of the GUI.
NextVideo ==
    \/ VideoOpen
    \/ VideoReadFrame
    \/ DiffusePixel
    \/ ThresholdPixel
    \/ Return
    \/ VideoWriteFrame
    \/ VideoEnd
    \/ RequestCancel

SpecVideo == Init /\ [][NextVideo]_vars

(***************************************************************************)
(* Properties                                                              *)
(***************************************************************************)
White == Gray(255)

Black == Gray(0)

WhitePixelImage ==
    [rows |-> 1, cols |-> 1, px |-> [c \in Coords(1, 1) |-> White]]

\* ditherImage has returned an image to its caller.
Returned == pc = "done"

\* The loops of an implementation are running or have finished.
Scanning == pc \in {"scan", "done"}

\* C1: every pixel the scan has written, and so every pixel of the image
\* ditherImage returns, is an entry of getPalette(params.paletteMode); on
\* return every pixel has been written.
C1_OutputWithinPalette ==
    /\ \A c \in visited : result[c] \in Range(getPalette(params.paletteMode))
    /\ Returned => visited = Coords(input.rows, input.cols)

\* A 2x2 image dithered with Atkinson onto PICO-8 has been returned, and
\* the quantisation changed a pixel.
C1_Witness ==
    /\ Returned
    /\ params.algorithm = "ATKINSON"
    /\ params.paletteMode = "PICO8"
    /\ input.rows = 2 /\ input.cols = 2
    /\ \E c \in visited : result[c] # pre.px[c]

\* The entries k / n^2, k = 0 .. n^2 - 1, in units of 1/TS.
BayerLevels(n) == {k * (TS \div (n * n)) : k \in 0..(n * n - 1)}

IsBayerPermutation(mat) ==
    /\ DOMAIN mat.m = Coords(mat.size, mat.size)
    /\ {mat.m[c] : c \in DOMAIN mat.m} = BayerLevels(mat.size)
    /\ \A c, d \in DOMAIN mat.m : mat.m[c] = mat.m[d] => c = d

\* C2: the matrix generateBayerMatrix(n) returns, n in {2, 4, 8, 16}, holds
\* each of the values k / n^2, k = 0 .. n^2 - 1, exactly once.
C2_BayerIsPermutation ==
    bayerMatrix.size \in {2, 4, 8, 16} => IsBayerPermutation(bayerMatrix)

\* generateBayerMatrix(4) has returned a matrix with a repeated entry and
\* without the level 15/16.
C2_Witness ==
    /\ bayerMatrix.size = 4
    /\ bayerMatrix.m[<<0, 1>>] = bayerMatrix.m[<<0, 2>>]
    /\ \A c \in DOMAIN bayerMatrix.m : bayerMatrix.m[c] # 15 * (TS \div 16)

C4_EmptyCustomPaletteFails ==
    (calls > 0 /\ params.paletteMode = "CUSTOM" /\ params.customPalette = << >>)
    => (visited = {} /\ ~Returned)

\* A call with CUSTOM and an empty customPalette returned a whole image,
\* dithered onto the monochrome palette.
C4_Witness ==
    /\ Returned
    /\ params.paletteMode = "CUSTOM"
    /\ params.customPalette = << >>
    /\ visited = Coords(input.rows, input.cols)
    /\ palette = MonochromePalette

\* C5: with paletteMode = CUSTOM and a non-empty customPalette, every
\* output pixel is a member of params.customPalette.
C5_CustomPaletteUsed ==
    (params.paletteMode = "CUSTOM" /\ params.customPalette # << >>)
    => \A c \in visited : result[c] \in Range(params.customPalette)

\* A call with the README's custom palette returned a white pixel, which
\* is not in that palette.
C5_Witness ==
    /\ Returned
    /\ params.paletteMode = "CUSTOM"
    /\ params.customPalette = ReadmeCustomPalette
    /\ \E c \in visited : result[c] = White

GrayscaleModeSize(mode) ==
    CASE mode = "GRAYSCALE_4"  -> 4
      [] mode = "GRAYSCALE_8"  -> 8
      [] mode = "GRAYSCALE_16" -> 16
      [] OTHER                 -> 0

GrayscaleModes == {"GRAYSCALE_4", "GRAYSCALE_8", "GRAYSCALE_16"}

\* v = floor(i * 255 / (n - 1))
IsFloorLevel(v, i, n) ==
    v * (n - 1) <= i * 255 /\ i * 255 < (v + 1) * (n - 1)

\* v = round(i * 255 / (n - 1))
IsRoundLevel(v, i, n) == 2 * Abs(v * (n - 1) - i * 255) <= n - 1

\* The palette of a call in mode Grayscale-N has N gray entries, in
\* increasing order.
IsGrayRamp(pal, n) ==
    /\ Len(pal) = n
    /\ \A i \in 1..n : pal[i][1] = pal[i][2] /\ pal[i][2] = pal[i][3]
    /\ \A i \in 1..(n - 1) : pal[i][1] < pal[i + 1][1]

\* C6 (as the code computes it): getPalette(Grayscale-N), N in {4, 8, 16},
\* returns N gray entries in increasing order whose i-th value is
\* floor(i * 255 / (N - 1)), i = 0 .. N - 1; Grayscale-4 is 0, 85, 170, 255.
C6_GrayscaleLevelsTruncated ==
    (Scanning /\ params.paletteMode \in GrayscaleModes)
    => LET n == GrayscaleModeSize(params.paletteMode)
       IN  /\ IsGrayRamp(palette, n)
           /\ \A i \in 1..n : IsFloorLevel(palette[i][1], i - 1, n)
           /\ n = 4 => palette = << Gray(0), Gray(85), Gray(170), Gray(255) >>

\* C6 as stated: the i-th value is round(i * 255 / (N - 1)).
C6_GrayscaleLevelsRounded ==
    (Scanning /\ params.paletteMode \in GrayscaleModes)
    => LET n == GrayscaleModeSize(params.paletteMode)
       IN  /\ IsGrayRamp(palette, n)
           /\ \A i \in 1..n : IsRoundLevel(palette[i][1], i - 1, n)

\* A call in mode Grayscale-8 returned; its palette holds 72 where
\* rounding gives 73.
C6_Witness ==
    /\ Returned
    /\ params.paletteMode = "GRAYSCALE_8"
    /\ palette[3] = Gray(72)
    /\ ~IsRoundLevel(72, 2, 8)

\* C7: a call with the image and the Parameters of the first call of the
\* session returns the image the first call returned, whatever calls were
\* made in between.
C7_SameInputSameOutput ==
    (Returned /\ first.valid /\ input = first.input /\ params = first.params)
    => result = first.output

\* The third call of a session repeated the first one, a seeded algorithm
\* on the 2x2 image, and has returned.
C7_Witness ==
    /\ Returned
    /\ calls >= 3
    /\ first.valid /\ input = first.input /\ params = first.params
    /\ params.algorithm \in SeededAlgorithms
    /\ input.rows = 2
    /\ rng.n > 0

OrderedBayerSize(alg) ==
    CASE alg = "ORDERED_BAYER_2X2"   -> 2
      [] alg = "ORDERED_BAYER_4X4"   -> 4
      [] alg = "ORDERED_BAYER_8X8"   -> 8
      [] alg = "ORDERED_BAYER_16X16" -> 16
      [] OTHER                       -> 0

\* C9: a call with the algorithm Ordered Bayer NxN scans with an N x N
\* threshold matrix.
C9_VariantSelectsMatrixSize ==
    (Scanning /\ params.algorithm \in OrderedBayerAlgorithms)
    => bayerMatrix.size = OrderedBayerSize(params.algorithm)

\* The CLI run `--algorithm bayer-2x2` returned an image thresholded with
\* the 8x8 matrix.
C9_Witness ==
    /\ Returned
    /\ params = CliParameters("bayer-2x2", "monochrome", QU, QU)
    /\ bayerMatrix.size = 8

ValidBayerSizes == {2, 4, 8, 16}

\* C10: a call of an Ordered-Bayer algorithm with an out-of-domain
\* bayerSize does not fail: generateBayerMatrix terminates and the scan
\* uses a matrix of a valid size.
C10_BayerSizeClamped ==
    (impl = "orderedDither" /\ params.bayerSize \notin ValidBayerSizes)
    => /\ pc # "stack_overflow"
       /\ Scanning => bayerMatrix.size \in ValidBayerSizes

\* generateBayerMatrix(3) recursed through sizes 1, 0, 0, ... until the
\* stack was full.
C10_Witness ==
    /\ pc = "stack_overflow"
    /\ params.bayerSize = 3
    /\ Len(bayerStack) = MaxStackDepth
    /\ Top(bayerStack) = 0

\* The index of the entry findClosestColor returned: the first entry equal
\* to the returned colour.
FirstIndexOf(out, pal) ==
    CHOOSE i \in DOMAIN pal : pal[i] = out /\ \A j \in 1..(i - 1) : pal[j] # out

\* C11: findClosestColor returns an entry of the palette with minimum
\* squared RGB distance to the colour; of several entries at that minimum
\* distance it returns the first in palette order.
C11_NearestFirstOnTies ==
    probe.fn = "findClosestColor"
    => /\ probe.out \in Range(probe.palette)
       /\ \A j \in DOMAIN probe.palette :
            (probe.color[1] - probe.out[1]) * (probe.color[1] - probe.out[1])
            + (probe.color[2] - probe.out[2]) * (probe.color[2] - probe.out[2])
            + (probe.color[3] - probe.out[3]) * (probe.color[3] - probe.out[3])
            <= (probe.color[1] - probe.palette[j][1])
                   * (probe.color[1] - probe.palette[j][1])
               + (probe.color[2] - probe.palette[j][2])
                   * (probe.color[2] - probe.palette[j][2])
               + (probe.color[3] - probe.palette[j][3])
                   * (probe.color[3] - probe.palette[j][3])
       /\ \A j \in 1..(FirstIndexOf(probe.out, probe.palette) - 1) :
            (probe.color[1] - probe.out[1]) * (probe.color[1] - probe.out[1])
            + (probe.color[2] - probe.out[2]) * (probe.color[2] - probe.out[2])
            + (probe.color[3] - probe.out[3]) * (probe.color[3] - probe.out[3])
            < (probe.color[1] - probe.palette[j][1])
                  * (probe.color[1] - probe.palette[j][1])
              + (probe.color[2] - probe.palette[j][2])
                  * (probe.color[2] - probe.palette[j][2])
              + (probe.color[3] - probe.palette[j][3])
                  * (probe.color[3] - probe.palette[j][3])

\* Gray 15 is equally far from the first two entries 10 and 20: the first,
\* 10, was returned.
C11_Witness ==
    /\ probe.fn = "findClosestColor"
    /\ probe.color = Gray(15)
    /\ probe.palette = << Gray(10), Gray(20), Gray(0) >>
    /\ probe.out = Gray(10)

PresetPalettes == {getPalette(mode) : mode \in PaletteModes}

\* C12: for a palette P that getPalette returns and a colour c of P,
\* findClosestColor(c, P) = c.
C12_PaletteColoursFixed ==
    ( /\ probe.fn = "findClosestColor"
      /\ probe.palette \in PresetPalettes
      /\ probe.color \in Range(probe.palette) )
    => probe.out = probe.color

\* The PICO-8 entry (255, 241, 232), which shares its first channel with
\* five earlier entries, was quantised to itself.
C12_Witness ==
    /\ probe.fn = "findClosestColor"
    /\ probe.palette = Pico8Palette
    /\ probe.color = <<255, 241, 232>>
    /\ probe.out = <<255, 241, 232>>

\* C13: an Ordered-Bayer call with strength 0 writes at every pixel the
\* palette colour nearest to the input pixel, whatever the Bayer size and
\* the position; an image whose pixels are all palette entries is returned
\* unchanged.
C13_ZeroStrengthOrderedIsNearest ==
    (Scanning /\ impl = "orderedDither" /\ params.strength = 0)
    => /\ \A c \in visited :
            result[c] = findClosestColor(input.px[c],
                                         getPalette(params.paletteMode))
       /\ ( /\ Returned
            /\ \A c \in DOMAIN input.px :
                 input.px[c] \in Range(getPalette(params.paletteMode)) )
          => result = input.px

\* The 8x8 matrix, strength 0, a solid white 2x2 image and the monochrome
\* palette: the image came back unchanged.
C13_Witness ==
    /\ Returned
    /\ impl = "orderedDither"
    /\ params.strength = 0
    /\ params.bayerSize = 8
    /\ params.paletteMode = "MONOCHROME"
    /\ input.rows = 2 /\ input.cols = 2
    /\ \A c \in DOMAIN input.px : input.px[c] = White
    /\ result = input.px

MidGrayImage ==
    [rows |-> 2, cols |-> 2, px |-> [c \in Coords(2, 2) |-> Gray(128)]]

\* Coordinates are <<y, x>>: white at (0,0) and (1,1), black at (1,0) and
\* (0,1).
Checkerboard ==
    [c \in Coords(2, 2) |-> IF c[1] = c[2] THEN White ELSE Black]

\* C14: Floyd-Steinberg on the 2x2 mid-gray image, Monochrome palette,
\* strength 1, serpentine off, neutral preprocessing, returns a checkerboard
\* of pure black and pure white: (0,0) and (1,1) one colour, (1,0) and (0,1)
\* the other; every run returns the same image.
C14_MidGrayCheckerboard ==
    ( /\ Returned
      /\ input = MidGrayImage
      /\ params = [DefaultParameters EXCEPT !.serpentine = 0] )
    => /\ \A c \in Coords(2, 2) : result[c] \in {Black, White}
       /\ result[<<0, 0>>] = result[<<1, 1>>]
       /\ result[<<0, 1>>] = result[<<1, 0>>]
       /\ result[<<0, 0>>] # result[<<0, 1>>]
       /\ result = Checkerboard

\* The call returned, after (0,0) pushed its negative error onto (1,0).
C14_Witness ==
    /\ Returned
    /\ input = MidGrayImage
    /\ params = [DefaultParameters EXCEPT !.serpentine = 0]
    /\ impl = "floydSteinberg"
    /\ result[<<0, 0>>] = White
    /\ result[<<0, 1>>] = Black

NeutralPreprocessing(p) ==
    /\ p.contrast = QU
    /\ p.brightness = 0
    /\ p.gamma = QU
    /\ p.saturation = QU

ModesWithPreset ==
    {"MONOCHROME", "GRAYSCALE_4", "GRAYSCALE_8", "GRAYSCALE_16", "CGA",
     "GAMEBOY", "PICO8"}

IsRoundedSample(out, quarters) ==
    LET cq == IF quarters < 0 THEN 0
              ELSE IF quarters > 255 * QU THEN 255 * QU ELSE quarters
    IN  /\ 2 * Abs(QU * out - cq) <= QU
        /\ 2 * Abs(QU * out - cq) = QU => out % 2 = 0

\* C17: every value of the Algorithm enum is routed to its own
\* implementation (the four Ordered-Bayer values to orderedDither), a value
\* outside the enum to floydSteinberg; the routed implementation works on
\* the input preprocessed exactly once.
C17_DispatchAndPreprocessOnce ==
    calls > 0
    => /\ \A i \in DOMAIN AlgorithmEnum :
            params.algorithm = AlgorithmEnum[i] => impl = ImplementationNames[i]
       /\ params.algorithm \in OrderedBayerAlgorithms => impl = "orderedDither"
       /\ params.algorithm \notin Range(AlgorithmEnum) => impl = "floydSteinberg"
       /\ ~Empty(input) => pre.rows = input.rows /\ pre.cols = input.cols
       /\ \A c \in DOMAIN input.px : \A k \in 1..3 :
            IsRoundedSample(pre.px[c][k],
                            input.px[c][k] * params.contrast
                                + 255 * params.brightness)

\* A CLI run with --contrast 0.5 and an unknown algorithm name returned:
\* floydSteinberg worked on the image halved once (255 -> 128, not 64).
C17_Witness ==
    /\ Returned
    /\ params.contrast = QU \div 2
    /\ impl = "floydSteinberg"
    /\ \E c \in DOMAIN input.px : input.px[c] = White /\ pre.px[c] = Gray(128)

\* a <= b for two progress values (numerators are never negative).
ProgressLeq(a, b) == a.num * b.den <= b.num * a.den

\* C18: the progress reported after each processed frame is
\* framesDone / totalFrames, lies in [0, 1] and is not smaller than the
\* value reported before it, whatever frame count the container announces.
C18_ProgressIsFraction ==
    video.written > 0
    => /\ video.videoProgress.num = video.written
       /\ video.videoProgress.den = video.totalFrames
       /\ video.videoProgress.den > 0
       /\ video.videoProgress.num <= video.videoProgress.den
       /\ ProgressLeq(video.previousProgress, video.videoProgress)

\* A frame was written and the progress reported for it is not in [0, 1]:
\* +inf (announced count 0) or more than 1 (announced count too small).
C18_Witness ==
    /\ video.written > 0
    /\ \/ video.videoProgress.den = 0
       \/ video.videoProgress.num > video.videoProgress.den

\* C19: once cancellation has been requested, no frame beyond those already
\* read at the time of the request (the one in progress included) is read,
\* dithered or written.
C19_NoFrameAfterCancel ==
    video.cancelRequested
    => /\ video.read <= video.cancelAt
       /\ video.written <= video.cancelAt

\* A frame read after the request has been dithered and written.
C19_Witness ==
    /\ video.cancelRequested
    /\ video.written > video.cancelAt

\* C20: a matrix generateBayerMatrix returns for size 2 is
\* [[0, 0.5], [0.75, 0.25]] (rows top to bottom, <<y, x>>), and every entry
\* of a matrix it returns for size 2, 4, 8 or 16 lies in [0, 1).
C20_BayerEntriesInUnitInterval ==
    /\ bayerMatrix.size = 2
       => /\ bayerMatrix.m[<<0, 0>>] = 0
          /\ 2 * bayerMatrix.m[<<0, 1>>] = TS
          /\ 4 * bayerMatrix.m[<<1, 0>>] = 3 * TS
          /\ 4 * bayerMatrix.m[<<1, 1>>] = TS
    /\ bayerMatrix.size \in {2, 4, 8, 16}
       => /\ DOMAIN bayerMatrix.m = Coords(bayerMatrix.size, bayerMatrix.size)
          /\ \A c \in DOMAIN bayerMatrix.m :
               bayerMatrix.m[c] >= 0 /\ bayerMatrix.m[c] < TS

\* orderedDither returned after generateBayerMatrix(16) built its matrix,
\* whose entries are not all zero.
C20_Witness ==
    /\ Returned
    /\ params.bayerSize = 16
    /\ bayerMatrix.size = 16
    /\ \E c \in DOMAIN bayerMatrix.m : bayerMatrix.m[c] > 0

\* One iteration of an error-diffusion loop.
DiffusionStep ==
    /\ pc = "scan"
    /\ impl \in DiffusionImpls
    /\ calls' = calls
    /\ visited' # visited

\* C21: an iteration of an error-diffusion loop changes no accumulator cell
\* of a pixel that is quantized (the current one included); within a row
\* Floyd-Steinberg with serpentine on moves left on odd rows, every other
\* scan moves right, and the cells changed in the current row lie on that
\* side of the pixel.
C21_ErrorOnlyToUnvisited ==
    [][DiffusionStep
       => LET back == impl = "floydSteinberg" /\ 2 * params.serpentine > QU
                          /\ pos.y % 2 = 1
          IN  /\ \A c \in visited' : errors'[c] = errors[c]
              /\ pos'.y = pos.y
                 => pos'.x = (IF back THEN pos.x - 1 ELSE pos.x + 1)
              /\ \A c \in DOMAIN errors :
                    (errors'[c] # errors[c] /\ c[1] = pos.y)
                    => (IF back THEN c[2] < pos.x ELSE c[2] > pos.x)]_vars

\* Floyd-Steinberg with serpentine on has quantized the last pixel of the
\* odd row 1 and moved left; the error it produced was not zero and the
\* pixel on its left holds accumulated error.
C21_Witness ==
    /\ pc = "scan"
    /\ impl = "floydSteinberg"
    /\ 2 * params.serpentine > QU
    /\ params.strength > 0
    /\ pre.cols = 2
    /\ pos = [y |-> 1, x |-> 0]
    /\ <<1, 1>> \in visited
    /\ generated > 0
    /\ errors[<<1, 0>>] # Zero3

\* C22: variableErrorDiffusion makes four draws from its generator for
\* every pixel it has quantized, one per weight.
C22_FourDrawsPerPixel ==
    (impl = "variableErrorDiffusion" /\ Scanning)
    => rng.n = 4 * Cardinality(visited)

\* variableErrorDiffusion has quantized two pixels and its generator has
\* made two draws: one multiplier per pixel, shared by the four weights.
C22_Witness ==
    /\ impl = "variableErrorDiffusion"
    /\ Scanning
    /\ Cardinality(visited) = 2
    /\ rng.n = 2

\* C23: with gamma different from 1, a sample whose value after the
\* contrast/brightness step is negative comes out of preprocessImage as 0.
C23_NegativeClampedBeforeGamma ==
    (probe.fn = "preprocessImage" /\ probe.params.gamma # QU)
    => \A c \in DOMAIN probe.image.px : \A k \in 1..3 :
          probe.image.px[c][k] * probe.params.contrast
              + 255 * probe.params.brightness < 0
          => probe.out.px[c][k] = 0

\* preprocessImage with gamma 2.0 and brightness -0.5 turned a black sample
\* (value -0.5 after the brightness step) into 64.
C23_Witness ==
    /\ probe.fn = "preprocessImage"
    /\ probe.params.gamma = 2 * QU
    /\ probe.params.contrast = QU
    /\ probe.params.brightness = -2
    /\ \E c \in DOMAIN probe.image.px :
          probe.image.px[c][1] = 0 /\ probe.out.px[c][1] = 64

\* One iteration of riemersma's loop.
RiemersmaStep ==
    /\ pc = "scan"
    /\ impl = "riemersma"
    /\ calls' = calls
    /\ visited' # visited

\* The iteration at <<pos.y, pos.x>> quantized the value `v` (units of
\* 1/FP), carries 0.8 * (v - quantized) on, and moves on in serpentine
\* raster order: odd rows right to left, whatever params.serpentine.
RiemersmaStepFrom(v) ==
    LET c == <<pos.y, pos.x>>
        clamped == [k \in 1..3 |-> Clamp(v[k], 0, 255 * FP)]
    IN  /\ visited' = visited \cup {c}
        /\ result'[c] = findClosestColor([k \in 1..3 |-> clamped[k] \div FP],
                                         palette)
        /\ \A k \in 1..3 :
              Abs(5 * carry'[k] - 4 * (clamped[k] - result'[c][k] * FP)) < 5
        /\ pos'.y = pos.y
           => pos'.x = (IF pos.y % 2 = 1 THEN pos.x - 1 ELSE pos.x + 1)
        /\ pos'.y # pos.y
           => /\ pos.x = (IF pos.y % 2 = 1 THEN 0 ELSE pre.cols - 1)
              /\ pos'.y = pos.y + 1
              /\ pos'.x = (IF pos'.y % 2 = 1 THEN pre.cols - 1 ELSE 0)

\* C24 as stated: the carried error is added in full, independently of
\* strength, to the next pixel in serpentine raster order.
C24_CarryAddedInFull ==
    [][RiemersmaStep
       => RiemersmaStepFrom([k \in 1..3 |->
                                pre.px[<<pos.y, pos.x>>][k] * FP + carry[k]])]_vars

\* C24, amended: the carried error is 0.8 * (pre-quantization value -
\* quantized value); it is added, multiplied by params.strength, to the
\* next pixel in serpentine raster order (odd rows right to left, whatever
\* the serpentine flag), across row ends too.
C24_CarryScaledByStrength ==
    [][RiemersmaStep
       => RiemersmaStepFrom([k \in 1..3 |->
                                pre.px[<<pos.y, pos.x>>][k] * FP
                                    + TruncDiv(carry[k] * params.strength, QU)])]_vars

\* riemersma with strength 0 and serpentine off starts the odd row 1 at the
\* right end, with a non-zero error carried over from row 0, and has
\* returned white for the gray pixel that came second in row 0: with the
\* carry added in full it would have been black.
C24_Witness ==
    /\ pc = "scan"
    /\ impl = "riemersma"
    /\ params.strength = 0
    /\ params.serpentine = 0
    /\ params.paletteMode = "MONOCHROME"
    /\ pre.cols = 2
    /\ pre.px[<<0, 0>>] = Gray(128)
    /\ pre.px[<<0, 1>>] = Gray(128)
    /\ pos = [y |-> 1, x |-> 1]
    /\ result[<<0, 1>>] = White
    /\ carry # Zero3

SameButSerpentine ==
    /\ Returned
    /\ first.valid
    /\ input = first.input
    /\ [params EXCEPT !.serpentine = first.params.serpentine] = first.params

C28_ProcessedMatchesParams ==
    /\ app.params.algorithm = AlgorithmEnum[app.selectedAlgorithm + 1]
    /\ app.params.paletteMode = PaletteModeEnum[app.selectedPalette + 1]
    /\ (/\ app.imageLoaded
        /\ app.autoUpdate
        /\ ~app.processing
        /\ app.event \in {"algorithm", "palette", "slider", "reset"})
       => /\ pc = "done"
          /\ input = app.originalImage
          /\ params = app.params
          /\ app.processedImage.px = result
          /\ app.selectedAlgorithm \in 8..11
             => params.bayerSize = << 2, 4, 8, 16 >>[app.selectedAlgorithm - 7]

\* The pass in which "Ordered Bayer 2x2" was chosen on the test image is
\* over: params.bayerSize is 2, but the image shown came from the call made
\* when it was still 8 and is all black.
C28_Witness ==
    /\ app.imageLoaded
    /\ ~app.processing
    /\ app.event = "algorithm"
    /\ app.selectedAlgorithm = 8
    /\ app.originalImage = TestImage
    /\ app.params.bayerSize = 2
    /\ app.params.strength = QU
    /\ app.params.paletteMode = "MONOCHROME"
    /\ params.bayerSize = 8
    /\ \A c \in DOMAIN app.processedImage.px : app.processedImage.px[c] = Black

\* C29: in an error-diffusion scan the pixels visited so far are distinct
\* pixels of the image, as many as iterations were made; while pixels are
\* left the loop stands on one of them, and when none is left it has ended
\* (so it ends after rows * cols iterations: at once for an image without
\* pixels); a pixel not visited yet still holds its preprocessed sample in
\* `result`; and the image passed to ditherImage is not changed by the call.
C29_EachPixelOnceThenStop ==
    /\ [](((pc = "scan" \/ pc = "done") /\ impl \in DiffusionImpls)
          => LET all == Coords(pre.rows, pre.cols)
             IN  /\ visited \subseteq all
                 /\ \A c \in all \ visited : result[c] = pre.px[c]
                 /\ (pc = "scan" /\ visited # all)
                    => /\ pos.y < pre.rows
                       /\ <<pos.y, pos.x>> \in all \ visited
                 /\ (pc = "scan" /\ visited = all) => pos.y >= pre.rows
                 /\ pc = "done" => visited = all)
    /\ [][(calls' = calls
           => input' = input)
          /\ ((pc = "scan" /\ pc' = "scan" /\ impl \in DiffusionImpls)
              => /\ visited' = visited \cup {<<pos.y, pos.x>>}
                 /\ <<pos.y, pos.x>> \notin visited)]_vars

\* Floyd-Steinberg with serpentine on returned a 2x2 image after visiting
\* its four pixels.
C29_Witness ==
    /\ Returned
    /\ impl = "floydSteinberg"
    /\ 2 * params.serpentine > QU
    /\ input.rows = 2 /\ input.cols = 2
    /\ Cardinality(visited) = 4

\* The fields of AppState that hold the loaded image and its result.
ImageFields(a) ==
    << a.originalImage, a.processedImage, a.currentFile, a.imageLoaded,
       a.isVideo >>

\* C30: a loadImage call on a file that cannot be decoded returns false and
\* changes none of originalImage, processedImage, currentFile, imageLoaded,
\* isVideo (and starts no ditherImage call); a pass whose handler calls
\* processImage while no image is loaded starts no call either and leaves
\* the image fields alone; and the processing flag is set only while the
\* ditherImage call processImage made is under way.
C30_FailedLoadChangesNothing ==
    /\ [](app.processing
          => /\ calls > 0
             /\ pc # "idle"
             /\ input = app.originalImage
             /\ app.imageLoaded)
    /\ [][/\ (app'.event = "loadImage" /\ GuiFiles[app'.filename].rows = 0)
             => /\ ~app'.returned
                /\ ImageFields(app') = ImageFields(app)
                /\ app'.processing = app.processing
                /\ UNCHANGED EngineVars
          /\ (~app.imageLoaded
              /\ app'.event \in {"algorithm", "palette", "slider"})
             => /\ ImageFields(app') = ImageFields(app)
                /\ ~app'.processing
                /\ UNCHANGED EngineVars]_app

\* loadImage failed on "broken.png" after the test image had been loaded
\* and processed: the test image and its result are still there.
C30_Witness ==
    /\ app.event = "loadImage"
    /\ app.filename = "broken.png"
    /\ ~app.returned
    /\ app.imageLoaded
    /\ app.originalImage = TestImage
    /\ app.currentFile = "test_gradient.png"
    /\ app.processedImage.rows = 2
    /\ ~app.processing

=============================================================================
